---- MODULE Spec2Model ----
(***************************************************************************)
(* FlowGenius installer builders: build_installer.py (flag-driven) and     *)
(* build_installer_simple.py (interactive menu).                           *)
(*                                                                         *)
(* File names are sequences of one-character strings, so that the suffix,  *)
(* lower-casing, substring and glob operations of the code are computed    *)
(* rather than assumed.                                                    *)
(***************************************************************************)
EXTENDS Integers, Sequences, FiniteSets, TLC

VARIABLES script, host, argv, args, fs, pc, log, npm_found, prereq,
          overall_success, platforms_built, success, installers_success,
          choice, passes, exitCode, calls

vars == <<script, host, argv, args, fs, pc, log, npm_found, prereq,
          overall_success, platforms_built, success, installers_success,
          choice, passes, exitCode, calls>>

(***************************************************************************)
(* Bounds.                                                                 *)
(***************************************************************************)
\* number of build passes of the interactive menu loop that are explored
MaxPasses == 2
\* number of consecutive calls of a cleaner or reporter that are explored
MaxCalls == 2

(***************************************************************************)
(* Strings as character sequences.                                         *)
(***************************************************************************)
UpperChars == <<"A","B","C","D","E","F","G","H","I","J","K","L","M",
                "N","O","P","Q","R","S","T","U","V","W","X","Y","Z">>
LowerChars == <<"a","b","c","d","e","f","g","h","i","j","k","l","m",
                "n","o","p","q","r","s","t","u","v","w","x","y","z">>

\* str.lower() on one character
LowerChar(c) ==
    IF \E i \in DOMAIN UpperChars : UpperChars[i] = c
    THEN LowerChars[CHOOSE i \in DOMAIN UpperChars : UpperChars[i] = c]
    ELSE c

\* str.lower()
Lower(s) == [i \in DOMAIN s |-> LowerChar(s[i])]

\* the Python test  sub in s  on strings
Contains(s, sub) ==
    \E i \in 1..(Len(s) - Len(sub) + 1) : SubSeq(s, i, i + Len(sub) - 1) = sub

\* pathlib PurePath.suffix: the part of the name from its last dot, unless
\* the name has no dot, starts with its only dot or ends with a dot
Suffix(name) ==
    LET dots == {i \in DOMAIN name : name[i] = "."} IN
    IF dots = {} THEN <<>>
    ELSE LET i == CHOOSE d \in dots : \A e \in dots : e <= d IN
         IF i > 1 /\ i < Len(name) THEN SubSeq(name, i, Len(name)) ELSE <<>>

\* fnmatch of a name against a pattern whose only wildcard is *
RECURSIVE Match(_, _)
Match(p, n) ==
    IF p = <<>> THEN n = <<>>
    ELSE IF Head(p) = "*"
         THEN Match(Tail(p), n) \/ (n # <<>> /\ Match(p, Tail(n)))
         ELSE n # <<>> /\ Head(n) = Head(p) /\ Match(Tail(p), Tail(n))

\* glob.glob: a pattern that does not start with a dot skips hidden names
GlobMatch(p, n) ==
    Match(p, n) /\ (n # <<>> /\ Head(n) = "." => Head(p) = ".")

(***************************************************************************)
(* The project directory.                                                  *)
(***************************************************************************)
OUT     == <<"o","u","t">>
DIST    == <<"d","i","s","t">>
WEBPACK == <<".","w","e","b","p","a","c","k">>
RootNames == {OUT, DIST, WEBPACK}

\* what a root entry is: nothing, a directory, a regular file, or a
\* directory the process is not allowed to delete
Kinds == {"absent", "dir", "file", "locked"}

STAR_JS     == <<"*",".","j","s">>
STAR_JS_MAP == <<"*",".","j","s",".","m","a","p">>
A_JS        == <<"a",".","j","s">>
A_JS_MAP    == <<"a",".","j","s",".","m","a","p">>
A_TS        == <<"a",".","t","s">>
\* regular files that may lie in src/renderer
RendererNames == {A_JS, A_JS_MAP, A_TS, STAR_JS}

S_EXE      == <<"s",".","e","x","e">>
S_EXE_UP   == <<"S",".","E","X","E">>
A_DMG      == <<"a",".","d","m","g">>
A_APPIMAGE == <<"a",".","A","p","p","I","m","a","g","e">>
D_ZIPX     == <<"d",".","z","i","p","x">>
N_TXT      == <<"n",".","t","x","t">>
\* regular files that may lie somewhere under out/
OutNames == {S_EXE, S_EXE_UP, A_DMG, A_APPIMAGE, D_ZIPX, N_TXT}

WINDOWS_HOST == <<"W","i","n","d","o","w","s">>
DARWIN_HOST  == <<"D","a","r","w","i","n">>
LINUX_HOST   == <<"L","i","n","u","x">>
FREEBSD_HOST == <<"F","r","e","e","B","S","D">>
\* values of platform.system()
Hosts == {WINDOWS_HOST, DARWIN_HOST, LINUX_HOST, FREEBSD_HOST}
\* the hosts on which the cleaner and the reporter are called in isolation
UnitHosts == {WINDOWS_HOST, LINUX_HOST}

FileSystems ==
    {f \in [pkg : BOOLEAN, node_modules : BOOLEAN,
            root : [RootNames -> Kinds],
            outFiles : SUBSET OutNames,
            renderer : SUBSET RendererNames] :
        f.root[OUT] \in {"absent", "file"} => f.outFiles = {}}

\* Path.exists() of a root entry
Exists(f, name) == f.root[name] # "absent"
\* Path.is_dir() of a root entry
IsDir(f, name) == f.root[name] \in {"dir", "locked"}

\* shutil.rmtree of a root entry: raises on a regular file and on a
\* directory that cannot be deleted
RmtreeRaises(f, name) == f.root[name] \in {"file", "locked"}
Rmtree(f, name) ==
    [f EXCEPT !.root[name] = "absent",
              !.outFiles = IF name = OUT THEN {} ELSE @]

(***************************************************************************)
(* Cleaner.                                                                *)
(***************************************************************************)
\* a path of the project: an entry of the root or of src/renderer
RootPath(name)     == [where |-> "root", name |-> name]
RendererPath(name) == [where |-> "renderer", name |-> name]

PathExists(f, p) ==
    IF p.where = "root" THEN Exists(f, p.name) ELSE p.name \in f.renderer
PathIsDir(f, p) == p.where = "root" /\ IsDir(f, p.name)

\* glob.glob(str(dir_path)) for a pattern of src/renderer
Glob(f, p) == {n \in f.renderer : GlobMatch(p.name, n)}

\* FlowGeniusBuilder.clean_build: directories_to_clean
directories_to_clean ==
    << RootPath(OUT), RootPath(DIST), RootPath(WEBPACK),
       RendererPath(STAR_JS), RendererPath(STAR_JS_MAP) >>

\* the state of a cleaner run: the file system, whether an exception has
\* propagated, and the paths whose removal was logged
CleanStart(f) == [fs |-> f, raised |-> FALSE, removed |-> {}]

\* one iteration of the loop of FlowGeniusBuilder.clean_build
FlagCleanOne(st, p) ==
    IF st.raised \/ ~PathExists(st.fs, p) THEN st
    ELSE IF PathIsDir(st.fs, p)
         THEN IF RmtreeRaises(st.fs, p.name)
              THEN [st EXCEPT !.raised = TRUE]
              ELSE [st EXCEPT !.fs = Rmtree(st.fs, p.name),
                              !.removed = @ \cup {p}]
         ELSE IF Contains(p.name, <<"*">>) /\ p.where = "renderer"
              THEN LET files == Glob(st.fs, p) IN
                   [st EXCEPT !.fs.renderer = @ \ files,
                              !.removed = @ \cup {RendererPath(n) : n \in files}]
              ELSE st

RECURSIVE FlagCleanLoop(_, _)
FlagCleanLoop(st, paths) ==
    IF paths = <<>> THEN st
    ELSE FlagCleanLoop(FlagCleanOne(st, Head(paths)), Tail(paths))

\* FlowGeniusBuilder.clean_build
FlagCleanBuild(f) == FlagCleanLoop(CleanStart(f), directories_to_clean)

\* dirs_to_clean with the output directory forgotten
dirs_to_clean_without_out == << DIST, WEBPACK >>

\* build_installer_simple.clean_build: dirs_to_clean
dirs_to_clean == << OUT, DIST, WEBPACK >>

\* one iteration of the loop of build_installer_simple.clean_build
SimpleCleanOne(st, name) ==
    IF st.raised \/ ~Exists(st.fs, name) THEN st
    ELSE IF RmtreeRaises(st.fs, name)
         THEN [st EXCEPT !.raised = TRUE]
         ELSE [st EXCEPT !.fs = Rmtree(st.fs, name),
                         !.removed = @ \cup {RootPath(name)}]

RECURSIVE SimpleCleanLoop(_, _)
SimpleCleanLoop(st, names) ==
    IF names = <<>> THEN st
    ELSE SimpleCleanLoop(SimpleCleanOne(st, Head(names)), Tail(names))

\* build_installer_simple.clean_build
SimpleCleanBuild(f) == SimpleCleanLoop(CleanStart(f), dirs_to_clean)

(***************************************************************************)
(* Reporter.                                                               *)
(***************************************************************************)
EXT_EXE      == <<".","e","x","e">>
EXT_DMG      == <<".","d","m","g">>
EXT_DEB      == <<".","d","e","b">>
EXT_RPM      == <<".","r","p","m">>
EXT_APPIMAGE == <<".","a","p","p","i","m","a","g","e">>
EXT_ZIP      == <<".","z","i","p">>
\* the extension list of FlowGeniusBuilder._show_build_artifacts
FlagExtensions == {EXT_EXE, EXT_DMG, EXT_DEB, EXT_RPM, EXT_APPIMAGE, EXT_ZIP}

\* the patterns of build_installer_simple.show_build_results
SimplePatterns == { <<"*">> \o EXT_EXE, <<"*">> \o EXT_DMG,
                    <<"*",".","A","p","p","I","m","a","g","e">> }

\* files found by out.rglob("*"): none unless out is a directory
OutListing(f) == IF IsDir(f, OUT) THEN f.outFiles ELSE {}

\* FlowGeniusBuilder._show_build_artifacts: what it lists and prints
ShowBuildArtifacts(f) ==
    IF Exists(f, OUT)
    THEN [listed |-> {n \in OutListing(f) :
                        \E ext \in FlagExtensions : Contains(Lower(Suffix(n)), ext)},
          notfound |-> FALSE, raised |-> FALSE]
    ELSE [listed |-> {}, notfound |-> FALSE, raised |-> FALSE]

\* pathlib matches glob patterns without regard to case on Windows only
RglobMatch(h, p, n) ==
    IF h = WINDOWS_HOST THEN Match(Lower(p), Lower(n)) ELSE Match(p, n)

\* build_installer_simple.show_build_results: what it lists and prints
ShowBuildResults(f, h) ==
    IF Exists(f, OUT)
    THEN [listed |-> {n \in OutListing(f) :
                        \E p \in SimplePatterns : RglobMatch(h, p, n)},
          notfound |-> FALSE, raised |-> FALSE]
    ELSE [listed |-> {}, notfound |-> TRUE, raised |-> FALSE]

(***************************************************************************)
(* Command-line arguments and the state common to all specifications.      *)
(***************************************************************************)
Args == [windows : BOOLEAN, macos : BOOLEAN, linux : BOOLEAN, all : BOOLEAN,
         clean : BOOLEAN, install_deps : BOOLEAN]

NoArgs == [windows |-> FALSE, macos |-> FALSE, linux |-> FALSE, all |-> FALSE,
           clean |-> FALSE, install_deps |-> FALSE]

\* the part of the state a specification does not choose in its Init
InitRest ==
    /\ args = argv
    /\ log = <<>>
    /\ npm_found = FALSE
    /\ prereq = "none"
    /\ overall_success = TRUE
    /\ platforms_built = <<>>
    /\ success = FALSE
    /\ installers_success = TRUE
    /\ choice = <<>>
    /\ passes = 0
    /\ exitCode = -1
    /\ calls = <<>>

(***************************************************************************)
(* The cleaner and the reporter called in isolation, several times in a    *)
(* row, from any project directory.                                        *)
(***************************************************************************)
UnitFileSystems ==
    {f \in [pkg : {TRUE}, node_modules : {TRUE},
            root : [RootNames -> Kinds],
            outFiles : SUBSET (OutNames \ {A_DMG}),
            renderer : SUBSET RendererNames] :
        f.root[OUT] \in {"absent", "file"} => f.outFiles = {}}

UnitInit ==
    /\ script \in {"flag", "simple"}
    /\ host \in UnitHosts
    /\ argv = NoArgs
    /\ fs \in UnitFileSystems
    /\ pc = "unit"
    /\ InitRest

\* a further call is made only if the calls so far were of the same
\* operation and none of them raised
CanCall(op) ==
    /\ pc = "unit"
    /\ Len(calls) < MaxCalls
    /\ \A i \in DOMAIN calls : calls[i].op = op /\ ~calls[i].raised

\* clean_build() of the chosen script
UnitClean ==
    /\ CanCall("clean")
    /\ LET r == IF script = "flag" THEN FlagCleanBuild(fs)
                                   ELSE SimpleCleanBuild(fs) IN
       /\ fs' = r.fs
       /\ calls' = Append(calls, [op |-> "clean", before |-> fs,
                                  after |-> r.fs, raised |-> r.raised, ret |-> ~r.raised,
                                  removed |-> r.removed, listed |-> {},
                                  notfound |-> FALSE])
    /\ UNCHANGED <<script, host, argv, args, pc, log, npm_found, prereq,
                   overall_success, platforms_built, success,
                   installers_success, choice, passes, exitCode>>

\* _show_build_artifacts() or show_build_results() of the chosen script
UnitReport ==
    /\ CanCall("report")
    /\ LET r == IF script = "flag" THEN ShowBuildArtifacts(fs)
                                   ELSE ShowBuildResults(fs, host) IN
       calls' = Append(calls, [op |-> "report", before |-> fs,
                               after |-> fs, raised |-> r.raised, ret |-> ~r.raised,
                               removed |-> {}, listed |-> r.listed,
                               notfound |-> r.notfound])
    /\ UNCHANGED <<script, host, argv, args, fs, pc, log, npm_found, prereq,
                   overall_success, platforms_built, success,
                   installers_success, choice, passes, exitCode>>

UnitNext == UnitClean \/ UnitReport

SpecUnit == UnitInit /\ [][UnitNext]_vars

(***************************************************************************)
(* External commands.  Their results are inputs; their effects on the      *)
(* project directory are chosen among the plausible ones.                  *)
(***************************************************************************)
\* an entry of the log of a run: a command or step and its result
Event(op, ok) == [op |-> op, ok |-> ok]

InstallerOps == {"make:win", "make:mac", "make:linux"}

\* npm install
InstallEffects(f, ok) == IF ok THEN {[f EXCEPT !.node_modules = TRUE]} ELSE {f}

\* npm run build
BuildEffects(f, ok) ==
    IF ok /\ f.root[WEBPACK] = "absent"
    THEN {[f EXCEPT !.root[WEBPACK] = "dir"]}
    ELSE {f}

\* the installer file each make command writes
Artifact(op) ==
    CASE op = "make:win"   -> S_EXE
      [] op = "make:mac"   -> A_DMG
      [] op = "make:linux" -> A_APPIMAGE

\* npm run make:win, make:mac, make:linux
MakeEffects(f, op, ok) ==
    IF ~ok \/ f.root[OUT] = "file" THEN {f}
    ELSE {f, [f EXCEPT !.root[OUT] = IF @ = "absent" THEN "dir" ELSE @,
                       !.outFiles = @ \cup {Artifact(op)}]}

(***************************************************************************)
(* build_installer.py                                                      *)
(***************************************************************************)
WINDOWS_LC == <<"w","i","n","d","o","w","s">>
DARWIN_LC  == <<"d","a","r","w","i","n">>
LINUX_LC   == <<"l","i","n","u","x">>

\* the platform default with the host name compared as reported, not
\* lower-cased
ResolveTargetsNoLower(a, h) ==
    IF ~(a.windows \/ a.macos \/ a.linux \/ a.all)
    THEN LET current_platform == h IN
         IF current_platform = WINDOWS_LC THEN [a EXCEPT !.windows = TRUE]
         ELSE IF current_platform = DARWIN_LC THEN [a EXCEPT !.macos = TRUE]
         ELSE IF current_platform = LINUX_LC THEN [a EXCEPT !.linux = TRUE]
         ELSE [a EXCEPT !.windows = TRUE]
    ELSE a

\* main: the default of the platform flags
ResolveTargets(a, h) ==
    IF ~(a.windows \/ a.macos \/ a.linux \/ a.all)
    THEN LET current_platform == Lower(h) IN
         IF current_platform = WINDOWS_LC THEN [a EXCEPT !.windows = TRUE]
         ELSE IF current_platform = DARWIN_LC THEN [a EXCEPT !.macos = TRUE]
         ELSE IF current_platform = LINUX_LC THEN [a EXCEPT !.linux = TRUE]
         ELSE [a EXCEPT !.windows = TRUE]
    ELSE a

\* sys.exit(code), and an uncaught exception, which ends the interpreter
\* with status 1
Exit(code) == pc' = "done" /\ exitCode' = code

\* main: parse_args and the platform default
FlagResolve ==
    /\ script = "flag" /\ pc = "resolve"
    /\ args' = ResolveTargets(args, host)
    /\ pc' = "init"
    /\ UNCHANGED <<script, host, argv, fs, log, npm_found, prereq,
                   overall_success, platforms_built, success,
                   installers_success, choice, passes, exitCode, calls>>

\* FlowGeniusBuilder.__init__: package.json is read
FlagInit ==
    /\ script = "flag" /\ pc = "init"
    /\ IF fs.pkg THEN pc' = "prereq" /\ exitCode' = exitCode ELSE Exit(1)
    /\ UNCHANGED <<script, host, argv, args, fs, log, npm_found, prereq,
                   overall_success, platforms_built, success,
                   installers_success, choice, passes, calls>>

\* the executables check_prerequisites probes, in order
npm_commands == <<"npm", "npm.cmd">>

\* check_prerequisites: does the npm probe loop find a package manager
FlagNpmFound(probe) == \E i \in DOMAIN npm_commands : npm_commands[i] \in probe

\* check_prerequisites: is npm install run
FlagPrereqInstalls(f, found) == found /\ f.pkg /\ ~f.node_modules

\* check_prerequisites without the  if not npm_found: return False
FlagPrereqResultIgnoresNpm(f, found, ok) ==
    IF ~f.pkg THEN FALSE
    ELSE IF ~f.node_modules THEN ok
    ELSE TRUE

\* check_prerequisites: the value returned
FlagPrereqResult(f, found, ok) ==
    IF ~found THEN FALSE
    ELSE IF ~f.pkg THEN FALSE
    ELSE IF ~f.node_modules THEN ok
    ELSE TRUE

\* main: if not builder.check_prerequisites(): sys.exit(1)
FlagCheckPrerequisites ==
    /\ script = "flag" /\ pc = "prereq"
    /\ \E probe \in SUBSET {"npm", "npm.cmd"}, ok \in BOOLEAN :
         LET found == FlagNpmFound(probe)
             inst  == FlagPrereqInstalls(fs, found)
             ret   == FlagPrereqResult(fs, found, ok) IN
         /\ npm_found' = found
         /\ log' = IF inst THEN Append(log, Event("install", ok)) ELSE log
         /\ fs' \in IF inst THEN InstallEffects(fs, ok) ELSE {fs}
         /\ prereq' = IF ret THEN "ok" ELSE "failed"
         /\ IF ret THEN pc' = "install_deps" /\ exitCode' = exitCode ELSE Exit(1)
    /\ UNCHANGED <<script, host, argv, args, overall_success, platforms_built,
                   success, installers_success, choice, passes, calls>>

\* main: if args.install_deps: install_dependencies()
FlagInstallDeps ==
    /\ script = "flag" /\ pc = "install_deps"
    /\ IF args.install_deps
       THEN \E ok \in BOOLEAN :
              /\ log' = Append(log, Event("install", ok))
              /\ fs' \in InstallEffects(fs, ok)
              /\ IF ok THEN pc' = "clean" /\ exitCode' = exitCode ELSE Exit(1)
       ELSE pc' = "clean" /\ UNCHANGED <<log, fs, exitCode>>
    /\ UNCHANGED <<script, host, argv, args, npm_found, prereq,
                   overall_success, platforms_built, success,
                   installers_success, choice, passes, calls>>

\* main: if args.clean: clean_build()
FlagClean ==
    /\ script = "flag" /\ pc = "clean"
    /\ IF args.clean
       THEN LET r == FlagCleanBuild(fs) IN
            /\ fs' = r.fs
            /\ log' = Append(log, Event("clean", ~r.raised))
            /\ IF r.raised THEN Exit(1) ELSE pc' = "build" /\ exitCode' = exitCode
       ELSE pc' = "build" /\ UNCHANGED <<log, fs, exitCode>>
    /\ UNCHANGED <<script, host, argv, args, npm_found, prereq,
                   overall_success, platforms_built, success,
                   installers_success, choice, passes, calls>>

\* main: if not builder.build_app(): sys.exit(1)
FlagBuild ==
    /\ script = "flag" /\ pc = "build"
    /\ \E ok \in BOOLEAN :
         /\ log' = Append(log, Event("build", ok))
         /\ fs' \in BuildEffects(fs, ok)
         /\ IF ok THEN pc' = "windows" /\ exitCode' = exitCode ELSE Exit(1)
    /\ UNCHANGED <<script, host, argv, args, npm_found, prereq,
                   overall_success, platforms_built, success,
                   installers_success, choice, passes, calls>>

\* the platform test without  args.all or
RequestedIgnoresAll(a, flag) == a[flag]

\* main: is the installer of a platform requested
Requested(a, flag) == a.all \/ a[flag]

\* the installer step without the  if success:  before the listing
CreateInstallerAlwaysReports(op, ok) ==
    /\ fs' \in MakeEffects(fs, op, ok)
    /\ log' = log \o <<Event(op, ok),
                       Event("report", ~ShowBuildArtifacts(fs').raised)>>

\* create_installer_windows, _macos, _linux: the command, and on success
\* the listing of the artifacts
CreateInstaller(op, ok) ==
    /\ fs' \in MakeEffects(fs, op, ok)
    /\ log' = IF ok
              THEN log \o <<Event(op, ok),
                            Event("report", ~ShowBuildArtifacts(fs').raised)>>
              ELSE Append(log, Event(op, ok))

\* the installer blocks chained so that a failure skips the later ones
FlagInstallerStopsAfterFailure(stage, flag, op, label, next) ==
    /\ script = "flag" /\ pc = stage
    /\ IF Requested(args, flag) /\ overall_success
       THEN \E ok \in BOOLEAN :
              /\ CreateInstaller(op, ok)
              /\ platforms_built' = IF ok THEN Append(platforms_built, label)
                                          ELSE platforms_built
              /\ overall_success' = IF ok THEN overall_success ELSE FALSE
       ELSE UNCHANGED <<log, fs, platforms_built, overall_success>>
    /\ pc' = next
    /\ UNCHANGED <<script, host, argv, args, npm_found, prereq, success,
                   installers_success, choice, passes, exitCode, calls>>

\* main: one of the three  if args.all or args.<platform>  blocks
FlagInstaller(stage, flag, op, label, next) ==
    /\ script = "flag" /\ pc = stage
    /\ IF Requested(args, flag)
       THEN \E ok \in BOOLEAN :
              /\ CreateInstaller(op, ok)
              /\ platforms_built' = IF ok THEN Append(platforms_built, label)
                                          ELSE platforms_built
              /\ overall_success' = IF ok THEN overall_success ELSE FALSE
       ELSE UNCHANGED <<log, fs, platforms_built, overall_success>>
    /\ pc' = next
    /\ UNCHANGED <<script, host, argv, args, npm_found, prereq, success,
                   installers_success, choice, passes, exitCode, calls>>

FlagWindows == FlagInstaller("windows", "windows", "make:win", "Windows", "macos")
FlagMacos   == FlagInstaller("macos", "macos", "make:mac", "macOS", "linux")
FlagLinux   == FlagInstaller("linux", "linux", "make:linux", "Linux", "summary")

\* the summary followed by sys.exit(0) whatever overall_success is
FlagSummaryExitsZero ==
    /\ script = "flag" /\ pc = "summary"
    /\ log' = Append(log, Event("summary", overall_success))
    /\ Exit(0)
    /\ UNCHANGED <<script, host, argv, args, fs, npm_found, prereq,
                   overall_success, platforms_built, success,
                   installers_success, choice, passes, calls>>

\* main: show_summary and sys.exit(0 if overall_success else 1)
FlagSummary ==
    /\ script = "flag" /\ pc = "summary"
    /\ log' = Append(log, Event("summary", overall_success))
    /\ Exit(IF overall_success THEN 0 ELSE 1)
    /\ UNCHANGED <<script, host, argv, args, fs, npm_found, prereq,
                   overall_success, platforms_built, success,
                   installers_success, choice, passes, calls>>

FlagNext ==
    \/ FlagResolve \/ FlagInit \/ FlagCheckPrerequisites \/ FlagInstallDeps
    \/ FlagClean \/ FlagBuild \/ FlagWindows \/ FlagMacos \/ FlagLinux
    \/ FlagSummary

(***************************************************************************)
(* build_installer_simple.py                                               *)
(***************************************************************************)
\* str.strip()
RECURSIVE LStrip(_)
LStrip(s) == IF s # <<>> /\ Head(s) = " " THEN LStrip(Tail(s)) ELSE s
RECURSIVE RStrip(_)
RStrip(s) ==
    IF s # <<>> /\ s[Len(s)] = " " THEN RStrip(SubSeq(s, 1, Len(s) - 1)) ELSE s
Strip(s) == RStrip(LStrip(s))

\* what the user may type at the menu prompt
MenuInputs == { <<"1">>, <<"2">>, <<"3">>, <<"4">>, <<"5">>, <<"6">>,
                <<" ", "1", " ">>, <<"7">>, <<>> }
\* what the user may type at the  Build another?  prompt
AgainInputs == { <<"y">>, <<"Y">>, <<"y","e","s">>, <<" ","Y","e","s">>,
                 <<"n">>, <<"y","e">>, <<>> }

\* check_prerequisites: is npm install run
SimplePrereqInstalls(f, npmOk) == npmOk /\ f.pkg /\ ~f.node_modules

\* check_prerequisites with the result of npm install dropped
SimplePrereqResultIgnoresInstall(f, npmOk, ok) ==
    IF ~npmOk THEN FALSE
    ELSE IF ~f.pkg THEN FALSE
    ELSE TRUE

\* check_prerequisites: the value returned
SimplePrereqResult(f, npmOk, ok) ==
    IF ~npmOk THEN FALSE
    ELSE IF ~f.pkg THEN FALSE
    ELSE IF ~f.node_modules THEN (IF ~ok THEN FALSE ELSE TRUE)
    ELSE TRUE

\* main: if not check_prerequisites(): ...
SimpleCheckPrerequisites ==
    /\ script = "simple" /\ pc = "prereq"
    /\ \E npmOk \in BOOLEAN, ok \in BOOLEAN :
         LET inst == SimplePrereqInstalls(fs, npmOk)
             ret  == SimplePrereqResult(fs, npmOk, ok) IN
         /\ npm_found' = npmOk
         /\ log' = IF inst THEN Append(log, Event("install", ok)) ELSE log
         /\ fs' \in IF inst THEN InstallEffects(fs, ok) ELSE {fs}
         /\ prereq' = IF ret THEN "ok" ELSE "failed"
         /\ pc' = IF ret THEN "menu" ELSE "press_enter"
    /\ UNCHANGED <<script, host, argv, args, overall_success, platforms_built,
                   success, installers_success, choice, passes, exitCode,
                   calls>>

\* main: input("Press Enter to exit...") and sys.exit(1)
SimplePressEnter ==
    /\ script = "simple" /\ pc = "press_enter"
    /\ Exit(1)
    /\ UNCHANGED <<script, host, argv, args, fs, log, npm_found, prereq,
                   overall_success, platforms_built, success,
                   installers_success, choice, passes, calls>>

BuildChoices == { <<"1">>, <<"2">>, <<"3">>, <<"4">> }
CleanChoices == { <<"3">>, <<"4">> }
AllChoices   == { <<"2">>, <<"4">> }

\* main: the menu prompt answered, up to the first step of the choice
SimpleMenu ==
    /\ script = "simple" /\ pc = "menu"
    /\ \E typed \in MenuInputs :
         LET c == Strip(typed) IN
         /\ choice' = c
         /\ IF c \in BuildChoices
            THEN /\ passes < MaxPasses
                 /\ passes' = passes + 1
                 /\ success' = FALSE
                 /\ log' = <<>>
                 /\ pc' = IF c \in CleanChoices THEN "s_clean" ELSE "s_build"
                 /\ exitCode' = exitCode
            ELSE /\ UNCHANGED <<passes, success, log>>
                 /\ IF c = <<"6">> THEN Exit(0)
                    ELSE pc' = "menu" /\ exitCode' = exitCode
    /\ UNCHANGED <<script, host, argv, args, fs, npm_found, prereq,
                   overall_success, platforms_built, installers_success,
                   calls>>

\* main: KeyboardInterrupt at the menu prompt
SimpleInterrupt ==
    /\ script = "simple" /\ pc = "menu"
    /\ Exit(0)
    /\ UNCHANGED <<script, host, argv, args, fs, log, npm_found, prereq,
                   overall_success, platforms_built, success,
                   installers_success, choice, passes, calls>>

\* main: clean_build() of the choices 3 and 4
SimpleClean ==
    /\ script = "simple" /\ pc = "s_clean"
    /\ LET r == SimpleCleanBuild(fs) IN
       /\ fs' = r.fs
       /\ log' = Append(log, Event("clean", ~r.raised))
       /\ IF r.raised THEN Exit(1) ELSE pc' = "s_build" /\ exitCode' = exitCode
    /\ UNCHANGED <<script, host, argv, args, npm_found, prereq,
                   overall_success, platforms_built, success,
                   installers_success, choice, passes, calls>>

\* the choices with  build_app()  not tested before the installers
SimpleAfterBuildNoShortCircuit(c, ok) ==
    IF c \in AllChoices THEN "s_all_win" ELSE "s_win"

\* main: where a choice goes after build_app(), by the short-circuit and
SimpleAfterBuild(c, ok) ==
    IF ~ok THEN "s_results"
    ELSE IF c \in AllChoices THEN "s_all_win" ELSE "s_win"

\* main: build_app()
SimpleBuild ==
    /\ script = "simple" /\ pc = "s_build"
    /\ \E ok \in BOOLEAN :
         /\ log' = Append(log, Event("build", ok))
         /\ fs' \in BuildEffects(fs, ok)
         /\ pc' = SimpleAfterBuild(choice, ok)
    /\ UNCHANGED <<script, host, argv, args, npm_found, prereq,
                   overall_success, platforms_built, success,
                   installers_success, choice, passes, exitCode, calls>>

\* main: create_windows_installer() of the choices 1 and 3
SimpleWindows ==
    /\ script = "simple" /\ pc = "s_win"
    /\ \E ok \in BOOLEAN :
         /\ log' = Append(log, Event("make:win", ok))
         /\ fs' \in MakeEffects(fs, "make:win", ok)
         /\ success' = ok
    /\ pc' = "s_results"
    /\ UNCHANGED <<script, host, argv, args, npm_found, prereq,
                   overall_success, platforms_built, installers_success,
                   choice, passes, exitCode, calls>>

\* create_all_installers: the Windows command
SimpleAllWindows ==
    /\ script = "simple" /\ pc = "s_all_win"
    /\ \E ok \in BOOLEAN :
         /\ log' = Append(log, Event("make:win", ok))
         /\ fs' \in MakeEffects(fs, "make:win", ok)
         /\ installers_success' = ok
    /\ pc' = "s_all_mac"
    /\ UNCHANGED <<script, host, argv, args, npm_found, prereq,
                   overall_success, platforms_built, success, choice, passes,
                   exitCode, calls>>

\* the macOS command with its failure counted like the other two
SimpleAllMacosFatal ==
    /\ script = "simple" /\ pc = "s_all_mac"
    /\ \E ok \in BOOLEAN :
         /\ log' = Append(log, Event("make:mac", ok))
         /\ fs' \in MakeEffects(fs, "make:mac", ok)
         /\ installers_success' = (installers_success /\ ok)
    /\ pc' = "s_all_linux"
    /\ UNCHANGED <<script, host, argv, args, npm_found, prereq,
                   overall_success, platforms_built, success, choice, passes,
                   exitCode, calls>>

\* create_all_installers: the macOS command, whose failure is ignored
SimpleAllMacos ==
    /\ script = "simple" /\ pc = "s_all_mac"
    /\ \E ok \in BOOLEAN :
         /\ log' = Append(log, Event("make:mac", ok))
         /\ fs' \in MakeEffects(fs, "make:mac", ok)
    /\ pc' = "s_all_linux"
    /\ UNCHANGED <<script, host, argv, args, npm_found, prereq,
                   overall_success, platforms_built, success,
                   installers_success, choice, passes, exitCode, calls>>

\* create_all_installers: the Linux command and the value returned
SimpleAllLinux ==
    /\ script = "simple" /\ pc = "s_all_linux"
    /\ \E ok \in BOOLEAN :
         /\ log' = Append(log, Event("make:linux", ok))
         /\ fs' \in MakeEffects(fs, "make:linux", ok)
         /\ installers_success' = (installers_success /\ ok)
         /\ success' = installers_success'
    /\ pc' = "s_results"
    /\ UNCHANGED <<script, host, argv, args, npm_found, prereq,
                   overall_success, platforms_built, choice, passes,
                   exitCode, calls>>

\* main: the result banner, with show_build_results() on success
SimpleResults ==
    /\ script = "simple" /\ pc = "s_results"
    /\ log' = IF success
              THEN Append(log, Event("report", ~ShowBuildResults(fs, host).raised))
              ELSE log
    /\ pc' = "s_again"
    /\ UNCHANGED <<script, host, argv, args, fs, npm_found, prereq,
                   overall_success, platforms_built, success,
                   installers_success, choice, passes, exitCode, calls>>

\* main: the answer to  Build another?  that continues the loop
Continues(typed) == Lower(Strip(typed)) \in { <<"y">>, <<"y","e","s">> }

\* the  Build another?  prompt with the loop placed around the
\* prerequisite check
SimpleAgainRechecks ==
    /\ script = "simple" /\ pc = "s_again"
    /\ \E typed \in AgainInputs :
         IF Continues(typed) THEN pc' = "prereq" /\ exitCode' = exitCode
         ELSE Exit(0)
    /\ UNCHANGED <<script, host, argv, args, fs, log, npm_found, prereq,
                   overall_success, platforms_built, success,
                   installers_success, choice, passes, calls>>

\* main: the  Build another?  prompt
SimpleAgain ==
    /\ script = "simple" /\ pc = "s_again"
    /\ \E typed \in AgainInputs :
         IF Continues(typed) THEN pc' = "menu" /\ exitCode' = exitCode
         ELSE Exit(0)
    /\ UNCHANGED <<script, host, argv, args, fs, log, npm_found, prereq,
                   overall_success, platforms_built, success,
                   installers_success, choice, passes, calls>>

SimpleNext ==
    \/ SimpleCheckPrerequisites \/ SimplePressEnter \/ SimpleMenu
    \/ SimpleInterrupt \/ SimpleClean \/ SimpleBuild \/ SimpleWindows
    \/ SimpleAllWindows \/ SimpleAllMacos \/ SimpleAllLinux
    \/ SimpleResults \/ SimpleAgain

(***************************************************************************)
(* The runs of both scripts.                                               *)
(***************************************************************************)
\* the project directories a run starts from
MainFileSystems ==
    {f \in [pkg : BOOLEAN, node_modules : BOOLEAN,
            root : {[n \in RootNames |-> IF n = OUT THEN k ELSE "absent"] :
                      k \in {"absent", "dir", "locked"}},
            outFiles : SUBSET {D_ZIPX},
            renderer : {{A_JS, A_TS}}] :
        f.root[OUT] = "absent" => f.outFiles = {}}

Init ==
    /\ script \in {"flag", "simple"}
    /\ host \in Hosts
    /\ argv \in IF script = "flag" THEN Args ELSE {NoArgs}
    /\ fs \in MainFileSystems
    /\ pc = IF script = "flag" THEN "resolve" ELSE "prereq"
    /\ InitRest

Next == FlagNext \/ SimpleNext

Spec == Init /\ [][Next]_vars

(***************************************************************************)
(* Properties.                                                             *)
(***************************************************************************)
\* the three platforms: flag, installer command, host OS name
Platforms ==
    { [flag |-> "windows", op |-> "make:win",   system |-> WINDOWS_HOST],
      [flag |-> "macos",   op |-> "make:mac",   system |-> DARWIN_HOST],
      [flag |-> "linux",   op |-> "make:linux", system |-> LINUX_HOST] }

Count(op) == Cardinality({i \in DOMAIN log : log[i].op = op})
Succeeded(op) == \E i \in DOMAIN log : log[i].op = op /\ log[i].ok
Failed(op) == \E i \in DOMAIN log : log[i].op = op /\ ~log[i].ok
\* the installer commands invoked so far in this run or pass
Invoked == {log[i].op : i \in DOMAIN log} \cap InstallerOps
\* the flag-driven run is past its installer stage
FlagInstallersDone ==
    script = "flag" /\ pc \in {"summary", "done"} /\ Succeeded("build")

TypeOK ==
    /\ script \in {"flag", "simple"}
    /\ host \in Hosts
    /\ argv \in Args /\ args \in Args
    /\ fs \in FileSystems
    /\ \A i \in DOMAIN log : log[i].ok \in BOOLEAN
    /\ npm_found \in BOOLEAN
    /\ prereq \in {"none", "ok", "failed"}
    /\ overall_success \in BOOLEAN /\ success \in BOOLEAN
    /\ installers_success \in BOOLEAN
    /\ passes \in 0..MaxPasses
    /\ exitCode \in {-1, 0, 1}
    /\ (pc = "done") = (exitCode # -1)

\* C1: in both scripts a failed npm run build is the last command of its
\* run or pass: no make command is invoked, the flag-driven script has
\* exited with status 1, the interactive script has marked the pass failed.
C1_BuildFailureShortCircuits ==
    \A i \in DOMAIN log :
        log[i].op = "build" /\ ~log[i].ok =>
            /\ Invoked = {}
            /\ i = Len(log)
            /\ script = "flag" => pc = "done" /\ exitCode = 1
            /\ script = "simple" =>
                   ~success /\ pc \in {"s_results", "s_again", "menu", "done"}

C1_Witness ==
    /\ script = "simple" /\ pc = "s_again"
    /\ choice = <<"2">>
    /\ Failed("build")

\* C2: in the flag-driven script, once the build has succeeded and the
\* installer stage is over, the command of every requested platform was
\* invoked exactly once whatever the other results, and overall_success and
\* the exit status reflect the conjunction of the results.
C2_EveryRequestedPlatformAttempted ==
    FlagInstallersDone =>
        /\ \A p \in Platforms :
               Count(p.op) = IF Requested(args, p.flag) THEN 1 ELSE 0
        /\ overall_success = (\A p \in Platforms : ~Failed(p.op))
        /\ (pc = "done" /\ (\E p \in Platforms : Failed(p.op))) => exitCode = 1

C2_Witness ==
    /\ FlagInstallersDone /\ pc = "done"
    /\ Failed("make:win") /\ Succeeded("make:mac") /\ Failed("make:linux")
    /\ exitCode = 1

\* every step of the flag-driven run that can fail has succeeded
FlagRunSucceeded ==
    /\ fs.pkg /\ prereq = "ok"
    /\ \A i \in DOMAIN log :
           log[i].op \in {"install", "clean", "build"} \cup InstallerOps =>
               log[i].ok
    /\ argv.clean => Succeeded("clean")
    /\ argv.install_deps => Succeeded("install")
    /\ Succeeded("build")
    /\ \A p \in Platforms : Requested(args, p.flag) => Succeeded(p.op)

NoPlatformFlag == ~(argv.windows \/ argv.macos \/ argv.linux \/ argv.all)
\* the installer commands of the platforms matching the host OS
HostOps == {p.op : p \in {q \in Platforms : q.system = host}}

\* C4 as stated: without platform flags the installer commands invoked are
\* exactly the one of the platform matching the host OS, for every host.
C4_Original ==
    FlagInstallersDone /\ NoPlatformFlag =>
        Invoked = HostOps /\ Cardinality(HostOps) = 1

\* C4: without platform flags the installer commands invoked are exactly
\* the one of the platform matching the host OS on Windows, Darwin and
\* Linux hosts, and exactly the Windows one on any other host.
C4_DefaultIsHostPlatform ==
    /\ script = "flag" /\ NoPlatformFlag =>
           Invoked \subseteq (IF HostOps # {} THEN HostOps ELSE {"make:win"})
    /\ FlagInstallersDone /\ NoPlatformFlag =>
           Invoked = IF HostOps # {} THEN HostOps ELSE {"make:win"}

C4_Witness ==
    /\ FlagInstallersDone /\ NoPlatformFlag
    /\ host = FREEBSD_HOST
    /\ Invoked = {"make:win"}

\* C5: with --all, whatever the host and the other platform flags, all
\* three installer commands have been invoked once the installer stage of a
\* run with a successful build is over.
C5_AllMeansAllThree ==
    FlagInstallersDone /\ argv.all => Invoked = InstallerOps

C5_Witness ==
    /\ FlagInstallersDone /\ argv.all
    /\ ~argv.windows /\ argv.macos /\ ~argv.linux
    /\ host = LINUX_HOST
    /\ Invoked = InstallerOps

\* C6: in both scripts, when package.json is missing or the npm probe has
\* found no package manager, no command has been invoked, the run never
\* gets past the prerequisite check and it ends with status 1.
C6_MissingPrerequisiteHalts ==
    (~fs.pkg \/ (prereq # "none" /\ ~npm_found)) =>
        /\ log = <<>>
        /\ pc \in {"resolve", "init", "prereq", "press_enter", "done"}
        /\ prereq # "ok"
        /\ pc = "done" => exitCode = 1

C6_Witness ==
    /\ pc = "done" /\ exitCode = 1
    /\ fs.pkg /\ fs.node_modules /\ prereq = "failed" /\ ~npm_found

\* the prerequisite check has just run
PrereqStep == pc = "prereq" /\ pc' # "prereq"

\* C7: in both scripts, with npm and package.json present, the
\* prerequisite check runs npm install exactly when node_modules is
\* missing and then succeeds exactly when the install does; after a failed
\* check nothing but that install was invoked and the run ends with
\* status 1.
C7_MissingModulesInstall ==
    /\ [][PrereqStep /\ npm_found' /\ fs.pkg =>
            IF fs.node_modules
            THEN log' = log /\ prereq' = "ok"
            ELSE /\ Len(log') = Len(log) + 1
                 /\ log'[Len(log')].op = "install"
                 /\ (prereq' = "ok") = log'[Len(log')].ok]_vars
    /\ [](prereq = "failed" =>
            /\ pc \in {"press_enter", "done"}
            /\ \A i \in DOMAIN log : log[i].op = "install"
            /\ pc = "done" => exitCode = 1)

C7_Witness ==
    /\ prereq = "failed" /\ npm_found /\ fs.pkg
    /\ log = <<Event("install", FALSE)>>
    /\ pc = "done"

\* the calls made so far are calls of the cleaner
CleanerCalls == \A i \in DOMAIN calls : calls[i].op = "clean"

\* C8 as stated: from any project directory, every one of two cleaner
\* calls in a row returns success without raising and leaves out absent,
\* and the second changes nothing.
C8_Original ==
    CleanerCalls =>
        \A i \in DOMAIN calls :
            /\ ~calls[i].raised /\ calls[i].ret
            /\ ~Exists(calls[i].after, OUT)
            /\ i > 1 => calls[i].after = calls[i].before

\* out, dist and .webpack are each absent or a directory that can be deleted
Deletable(f) == \A n \in RootNames : f.root[n] \in {"absent", "dir"}

\* C8: from any project directory in which out, dist and .webpack are each
\* absent or a deletable directory, every one of several cleaner calls in a
\* row returns success without raising and leaves out absent, and every
\* call after the first changes nothing.
C8_CleanerIdempotent ==
    CleanerCalls /\ calls # <<>> /\ Deletable(calls[1].before) =>
        \A i \in DOMAIN calls :
            /\ ~calls[i].raised /\ calls[i].ret
            /\ ~Exists(calls[i].after, OUT)
            /\ i > 1 => calls[i].after = calls[i].before

C8_Witness ==
    /\ Len(calls) >= 2 /\ CleanerCalls
    /\ calls[1].before.root[OUT] = "dir" /\ Deletable(calls[1].before)
    /\ calls[1].before.outFiles # {}
    /\ ~Exists(calls[2].after, OUT)

\* the glob patterns of the cleaner of the flag-driven script
CleanPatterns == {STAR_JS, STAR_JS_MAP}

\* C9: when the cleaner of the flag-driven script returns, the directories
\* out, dist and .webpack and the files of src/renderer that match *.js or
\* *.js.map, if present before, are gone and their removal was logged.
C9_CleanerRemovesAll ==
    \A i \in DOMAIN calls :
        script = "flag" /\ calls[i].op = "clean" /\ ~calls[i].raised =>
            /\ \A n \in RootNames :
                   IsDir(calls[i].before, n) =>
                       /\ ~Exists(calls[i].after, n)
                       /\ RootPath(n) \in calls[i].removed
            /\ \A n \in calls[i].before.renderer :
                   (\E pat \in CleanPatterns : GlobMatch(pat, n)) =>
                       /\ n \notin calls[i].after.renderer
                       /\ RendererPath(n) \in calls[i].removed

\* a file whose extension is one of the reporter's list
AllowListed(n) ==
    IF script = "flag"
    THEN Lower(Suffix(n)) \in FlagExtensions
    ELSE \E p \in SimplePatterns : Lower(Suffix(n)) = Lower(Tail(p))

\* C10: the reporter of either script never raises and leaves the project
\* directory as it was; without out it lists nothing and prints a "not
\* found" message; with no file of an allow-listed extension under out it
\* lists nothing.
C10_ReporterReadOnly ==
    \A i \in DOMAIN calls :
        calls[i].op = "report" =>
            /\ ~calls[i].raised
            /\ calls[i].after = calls[i].before
            /\ ~Exists(calls[i].before, OUT) =>
                   calls[i].listed = {} /\ calls[i].notfound
            /\ (\A n \in OutListing(calls[i].before) : ~AllowListed(n)) =>
                   calls[i].listed = {}

\* the position of the only event of a command in the log, 0 if none
IndexOf(op) ==
    IF \E i \in DOMAIN log : log[i].op = op
    THEN CHOOSE i \in DOMAIN log : log[i].op = op
    ELSE 0

\* C11: in the all-platforms step of the interactive script on a host
\* other than macOS, a failed make:mac leaves the step running: make:linux
\* is the next command, invoked once, and the result of the step is success
\* exactly when make:win and make:linux both succeeded.
C11_MacFailureNonFatal ==
    script = "simple" /\ host # DARWIN_HOST /\ Count("make:mac") = 1 =>
        /\ Count("make:win") = 1 /\ IndexOf("make:win") < IndexOf("make:mac")
        /\ IF pc = "s_all_linux"
           THEN Count("make:linux") = 0 /\ exitCode = -1
           ELSE /\ Count("make:linux") = 1
                /\ IndexOf("make:linux") = IndexOf("make:mac") + 1
                /\ installers_success =
                       (Succeeded("make:win") /\ Succeeded("make:linux"))
                /\ success = installers_success

C11_Witness ==
    /\ script = "simple" /\ host = LINUX_HOST /\ pc = "s_again"
    /\ Succeeded("make:win") /\ Failed("make:mac") /\ Succeeded("make:linux")
    /\ success

\* the place of a command in the sequence of the flag-driven script
FlagRank(op) ==
    CASE op = "install"    -> 1
      [] op = "clean"      -> 2
      [] op = "build"      -> 3
      [] op = "make:win"   -> 4
      [] op = "make:mac"   -> 5
      [] op = "make:linux" -> 6
      [] op = "summary"    -> 7

\* the flag-driven script resolves its targets first, checks the
\* prerequisites before any command, runs its commands in the order
\* install, clean, build, installers, and ends with the summary once every
\* requested installer command was attempted
FlagStepsInOrder ==
    /\ pc # "resolve" => args = ResolveTargets(argv, host)
    /\ pc \in {"resolve", "init", "prereq"} => log = <<>> /\ prereq = "none"
    /\ \A i, j \in DOMAIN log :
           i < j /\ log[i].op # "report" /\ log[j].op # "report" =>
               /\ FlagRank(log[i].op) <= FlagRank(log[j].op)
               /\ FlagRank(log[i].op) = FlagRank(log[j].op) =>
                      log[i].op = "install"
    /\ \A i \in DOMAIN log :
           /\ log[i].op = "clean" => argv.clean
           /\ log[i].op \in InstallerOps =>
                  \E j \in 1..(i - 1) : log[j].op = "build" /\ log[j].ok
           /\ log[i].op = "summary" =>
                  /\ i = Len(log)
                  /\ \A p \in Platforms :
                         Requested(args, p.flag) => Count(p.op) = 1

\* C12 as stated: the steps of the flag-driven script occur in order and
\* artifacts are reported only after every requested installer command was
\* attempted.
C12_Original ==
    script = "flag" =>
        /\ FlagStepsInOrder
        /\ \A i \in DOMAIN log :
               log[i].op = "report" =>
                   \A p \in Platforms :
                       Requested(args, p.flag) =>
                           \E j \in 1..(i - 1) : log[j].op = p.op

\* C12: the steps of the flag-driven script occur in order; the artifacts
\* are reported right after each installer command that succeeded, and only
\* then, so possibly before the later installer commands are attempted; the
\* summary comes after every requested installer command was attempted.
C12_StepsInOrder ==
    script = "flag" =>
        /\ FlagStepsInOrder
        /\ \A i \in DOMAIN log :
               /\ log[i].op = "report" =>
                      i > 1 /\ log[i - 1].op \in InstallerOps /\ log[i - 1].ok
               /\ log[i].op \in InstallerOps /\ log[i].ok =>
                      i < Len(log) /\ log[i + 1].op = "report"

C12_Witness ==
    /\ script = "flag" /\ pc = "done" /\ argv.clean
    /\ \E i, j \in DOMAIN log :
           i < j /\ log[i].op = "report" /\ log[j].op = "make:linux"

\* the place of a command in a pass of the interactive script
SimpleRank(op) ==
    CASE op = "install"    -> 0
      [] op = "clean"      -> 1
      [] op = "build"      -> 2
      [] op = "make:win"   -> 3
      [] op = "make:mac"   -> 4
      [] op = "make:linux" -> 5
      [] op = "report"     -> 6

\* the prerequisite check comes before the first menu, the menu is only
\* reached after it succeeded, and the commands of a pass are in the order
\* clean, build, installers, report
SimplePassInOrder ==
    script = "simple" =>
        /\ pc = "prereq" => prereq = "none" /\ passes = 0
        /\ pc \notin {"prereq", "press_enter", "done"} => prereq = "ok"
        /\ \A i \in DOMAIN log : log[i].op = "install" => passes = 0
        /\ \A i, j \in DOMAIN log :
               i < j => SimpleRank(log[i].op) < SimpleRank(log[j].op)
        /\ \A i \in DOMAIN log :
               log[i].op = "clean" /\ pc \notin {"menu", "done"} =>
                   choice \in CleanChoices

\* a step of the interactive script: the prerequisite check is never run
\* again; a selection 1-4 starts a new pass at its first step; the help, an
\* invalid input and the exits from the menu invoke no command
SimpleLoopStep ==
    script = "simple" =>
        /\ pc' = "prereq" => pc = "prereq"
        /\ prereq' # prereq => pc = "prereq" /\ prereq = "none"
        /\ pc = "menu" /\ pc' \notin {"menu", "done"} =>
               /\ choice' \in BuildChoices
               /\ pc' = IF choice' \in CleanChoices THEN "s_clean" ELSE "s_build"
               /\ log' = <<>> /\ ~success' /\ fs' = fs
        /\ pc = "menu" /\ pc' \in {"menu", "done"} =>
               /\ choice' # choice => choice' \notin BuildChoices
               /\ log' = log /\ fs' = fs /\ passes' = passes
        /\ pc = "menu" /\ choice' # choice
              /\ choice' \notin BuildChoices \cup { <<"6">> } => pc' = "menu"
        /\ pc = "menu" /\ choice' # choice /\ choice' = <<"6">> => pc' = "done"

\* the menu loop ends in this step
LoopEnds == script = "simple" /\ pc' = "done" /\ pc \notin {"done", "press_enter"}

\* the user leaves: choice 6 or an interrupt at the menu, or an answer
\* other than y or yes to  Build another?
UserExits == pc \in {"menu", "s_again"} /\ exitCode' = 0

\* clean_build raises and the exception ends the process
CleanerRaises ==
    /\ pc = "s_clean" /\ choice \in CleanChoices
    /\ log' = Append(log, Event("clean", FALSE))
    /\ exitCode' = 1

\* C13 as stated: the prerequisite check runs once, before the first menu;
\* every selection 1-4 runs clean, build, installers, report in order
\* without a new check; help and invalid input invoke nothing and return to
\* the menu; the loop ends only when the user exits.
C13_Original ==
    /\ []SimplePassInOrder
    /\ [][SimpleLoopStep /\ (LoopEnds => UserExits)]_vars

\* C13: the prerequisite check runs once, before the first menu; every
\* selection 1-4 runs clean, build, installers, report in order without a
\* new check; help and invalid input invoke nothing and return to the menu;
\* the loop ends only when the user exits or when clean_build raises.
C13_MenuLoop ==
    /\ []SimplePassInOrder
    /\ [][SimpleLoopStep /\ (LoopEnds => UserExits \/ CleanerRaises)]_vars

C13_Witness ==
    /\ script = "simple" /\ pc = "done" /\ prereq = "ok"
    /\ passes = 2 /\ exitCode = 1
    /\ log = <<Event("clean", FALSE)>>

====
